---- MODULE Spec2Model ----
(***************************************************************************)
(* Model of humiolib/QueryJob.py: the client-side polling state machine of *)
(* a Humio query job (BaseQueryJob, StaticQueryJob, LiveQueryJob).         *)
(*                                                                         *)
(* Time.  The model's clock `now` and the field time_at_last_poll are kept *)
(* in integer milliseconds; time.time() (seconds) is now / MsPerSec.       *)
(* wait_time is the server's pollAfter, a number of milliseconds.  The     *)
(* argument of time.sleep (seconds) is kept in integer microseconds, which *)
(* makes the arithmetic of _wait_till_next_poll exact.                     *)
(***************************************************************************)
EXTENDS Integers, Sequences, FiniteSets, TLC

(***************************************************************************)
(* Bounds of the model.                                                    *)
(***************************************************************************)
MaxWork == 1
MaxWait == 1
MaxLatency == 1
MaxPolls == 3
MaxGets == 3
LongIdle == 1000
MaxTime == 1006

(***************************************************************************)
(* Units.  time.time() counts seconds (line 58); the sleep argument is     *)
(* divided by 1000.0 (line 60).                                            *)
(***************************************************************************)
MsPerSec == 1000
UsPerMs == 1000
SleepDivisor == 1000

Min(a, b) == IF a < b THEN a ELSE b

(***************************************************************************)
(* Values exchanged with the transport collaborator.                       *)
(***************************************************************************)
Kinds == {"static", "live"}
WaitTimes == {0, MaxWait}
\* A transport call takes MaxLatency milliseconds.
Latencies == {MaxLatency}
IdleTimes == {1, LongIdle}

MetaData == [isAggregate : BOOLEAN, workDone : 0 .. MaxWork,
             totalWork : 0 .. MaxWork, pollAfter : WaitTimes]

\* The JSON body of a 2xx answer to GET dataspaces/{repository}/queryjobs/{id}.
\* Its events are opaque to the client: the events of the n-th answer the
\* server gives are written n.
Body == [metaData : MetaData, done : BOOLEAN, cancelled : BOOLEAN]
Response(n, b) == [events |-> n, metaData |-> b.metaData,
                   done |-> b.done, cancelled |-> b.cancelled]

NoMeta == [isAggregate |-> FALSE, workDone |-> 0, totalWork |-> 0, pollAfter |-> 0]
NoResponse == [events |-> 0, metaData |-> NoMeta, done |-> FALSE, cancelled |-> FALSE]

\* What poll() reads of the response to its first fetch (lines 123 and 131).
FirstOf(r) == [seen |-> TRUE, workDone |-> r.metaData.workDone, done |-> r.done]
NoFirst == [seen |-> FALSE, workDone |-> 0, done |-> FALSE]

\* PollResult(events, metadata)
PollResult(events, metadata) == [events |-> events, metadata |-> metadata]
NoResult == PollResult(0, NoMeta)

\* What call_rest(...).json() can raise: a HumioHTTPException carrying a
\* status code and a message, or an exception of another class.
Statuses == {404, 500}
Messages == {"msg"}
HTTPErrors == [type : {"HumioHTTPException"}, status_code : Statuses, message : Messages]
OtherErrors == [type : {"OtherException"}, status_code : {0}, message : Messages]
TransportErrors == HTTPErrors \cup OtherErrors
NoError == [type |-> "none", status_code |-> 0, message |-> ""]
HumioQueryJobExpiredException(message) ==
    [type |-> "HumioQueryJobExpiredException", status_code |-> 0, message |-> message]
HumioQueryJobExhaustedException ==
    [type |-> "HumioQueryJobExhaustedException", status_code |-> 0, message |-> ""]

\* Request headers: a dict from header names to values.
NoHeaders == [k \in {} |-> ""]
UserToken == "token"

\* _default_user_headers, lines 47-50.
_default_user_headers ==
    [k \in {"Content-Type", "Authorization"} |->
        IF k = "Content-Type" THEN "application/json" ELSE "Bearer " \o UserToken]

\* dict.update, line 119: the entries of u replace or extend those of d.
Update(d, u) ==
    [k \in DOMAIN d \cup DOMAIN u |-> IF k \in DOMAIN u THEN u[k] ELSE d[k]]

\* The headers a caller may pass as poll(headers=...): none, or a dict that
\* collides with a default header and adds one.
CallerHeaders ==
    {NoHeaders,
     [k \in {"Authorization", "X-Trace"} |->
        IF k = "Authorization" THEN "Basic other" ELSE "trace"]}

\* What the DELETE of __del__ can do: succeed, or raise as a GET can.
DeleteOutcomes == {NoError} \cup TransportErrors

VARIABLES
    kind,               \* which class the handle is an instance of
    jobAggregate,       \* whether the server-side job is an aggregate query
    is_done, is_cancelled, time_at_last_poll, wait_time,   \* the handle's fields
    now,                \* the wall clock, in milliseconds
    pc,                 \* where poll() stands: idle, fetch1, aggloop, stream2
    via,                \* who called the running poll(): "call" or "gen"
    poll_result,        \* poll()'s local variable
    outcome, ret, raised,      \* how the last poll() ended, and with what
    thrown,             \* what the transport raised in the last failed call
    first,              \* the response to the first fetch of the running poll()
    fetches,            \* transport GETs issued by the running poll() (saturating)
    polls,              \* poll() invocations so far
    gets,               \* transport GETs issued so far (saturating)
    entryDone,          \* is_done when the last poll() was entered
    slept,              \* microseconds asked of time.sleep by the last gate, or NoSleep
    getAt,              \* when the last GET was issued
    everOk,             \* a transport call has succeeded
    event,              \* what the last step was
    gen, pullOutcome,   \* the generator of poll_until_done(), and how its last next() ended
    callerHeaders,      \* the headers the caller gave the running poll()
    headers,            \* poll()'s local variable: the headers of each of its GETs
    partials,           \* partial aggregate segments fetched by the running poll() (saturating)
    lastOk,             \* the most recent 2xx answer
    disposed,           \* __del__ has run
    delThrown, delRaised    \* what its DELETE raised, and what left __del__

handle == <<is_done, is_cancelled, time_at_last_poll, wait_time>>
genVars == <<gen, pullOutcome>>
hdrVars == <<callerHeaders, headers>>
delVars == <<disposed, delThrown, delRaised>>
vars == <<kind, jobAggregate, is_done, is_cancelled, time_at_last_poll, wait_time, now, pc, via,
          poll_result, outcome, ret, raised, thrown, first, fetches, polls, gets,
          entryDone, slept, getAt, everOk, event, gen, pullOutcome,
          callerHeaders, headers, partials, lastOk, disposed, delThrown, delRaised>>

NoSleep == -1

(***************************************************************************)
(* BaseQueryJob.__init__                                                   *)
(***************************************************************************)
\* A handle constructed with a wait_time that is not zero.
InitWaitTimeStale == MaxWait

InitWaitTime == 0
InitTimeAtLastPoll == 0

Init ==
    /\ kind \in Kinds
    /\ jobAggregate \in BOOLEAN
    /\ is_done = FALSE
    /\ is_cancelled = FALSE
    /\ time_at_last_poll = InitTimeAtLastPoll
    /\ wait_time = InitWaitTime
    /\ now = 0
    /\ pc = "idle"
    /\ via = "call"
    /\ poll_result = NoResult
    /\ outcome = "none"
    /\ ret = NoResult
    /\ raised = NoError
    /\ thrown = NoError
    /\ first = NoFirst
    /\ fetches = 0
    /\ polls = 0
    /\ gets = 0
    /\ entryDone = FALSE
    /\ slept = NoSleep
    /\ getAt = 0
    /\ everOk = FALSE
    /\ event = "init"
    /\ gen = "none"
    /\ pullOutcome = "none"
    /\ callerHeaders = NoHeaders
    /\ headers = NoHeaders
    /\ partials = 0
    /\ lastOk = NoResponse
    /\ disposed = FALSE
    /\ delThrown = NoError
    /\ delRaised = NoError

\* A gate that never sleeps.
_wait_till_next_poll_never_sleeps(t, last, w) == NoSleep

(***************************************************************************)
(* _wait_till_next_poll: the number of microseconds asked of time.sleep    *)
(* at clock t, or NoSleep when time.sleep is not called.                   *)
(*   time_since_last_poll = (t - last) / MsPerSec           seconds        *)
(*   time_since_last_poll < w   <=>   t - last < w * MsPerSec              *)
(*   sleep((w - time_since_last_poll) / 1000.0) seconds                    *)
(*     = (w * MsPerSec - (t - last)) * UsPerMs / SleepDivisor microseconds *)
(***************************************************************************)
_wait_till_next_poll(t, last, w) ==
    IF t - last < w * MsPerSec
    THEN ((w * MsPerSec - (t - last)) * UsPerMs) \div SleepDivisor
    ELSE NoSleep

\* The clock ticks a sleep of us microseconds takes at least.
SleepTicks(us) == IF us = NoSleep THEN 0 ELSE (us + UsPerMs - 1) \div UsPerMs

\* Every HTTP error translated to the expired-job error, whatever its status.
FetchRaisesAlwaysExpired(e) ==
    IF e.type = "HumioHTTPException"
    THEN HumioQueryJobExpiredException(e.message)
    ELSE e

(***************************************************************************)
(* _fetch_next_segment, lines 79-88: what is raised for a transport error. *)
(***************************************************************************)
FetchRaises(e) ==
    IF e.type = "HumioHTTPException"
    THEN IF e.status_code = 404
         THEN HumioQueryJobExpiredException(e.message)
         ELSE e
    ELSE e

_aggregate_query_is_not_done(metadata) ==
    metadata.isAggregate /\ metadata.workDone # metadata.totalWork

\* poll() with an `if` in place of the aggregate `while`.
PollNextAggregateIf(p, metadata, done) ==
    CASE p = "fetch1" ->
            IF metadata.isAggregate
            THEN IF _aggregate_query_is_not_done(metadata) THEN "aggloop" ELSE "return"
            ELSE IF metadata.workDone = 0 /\ ~done THEN "stream2" ELSE "return"
      [] OTHER -> "return"

\* poll() whose streaming re-fetch does not look at is_done.
PollNextIgnoresDone(p, metadata, done) ==
    CASE p = "fetch1" ->
            IF metadata.isAggregate
            THEN IF _aggregate_query_is_not_done(metadata) THEN "aggloop" ELSE "return"
            ELSE IF metadata.workDone = 0 THEN "stream2" ELSE "return"
      [] p = "aggloop" ->
            IF _aggregate_query_is_not_done(metadata) THEN "aggloop" ELSE "return"
      [] OTHER -> "return"

\* poll() with a `while` in place of the streaming `if`.
PollNextStreamingWhile(p, metadata, done) ==
    CASE p = "aggloop" ->
            IF _aggregate_query_is_not_done(metadata) THEN "aggloop" ELSE "return"
      [] p = "fetch1" /\ metadata.isAggregate ->
            IF _aggregate_query_is_not_done(metadata) THEN "aggloop" ELSE "return"
      [] OTHER ->
            IF metadata.workDone = 0 /\ ~done THEN "stream2" ELSE "return"

\* poll() whose aggregate loop also stops when the handle is done.
PollNextAggregateStopsAtDone(p, metadata, done) ==
    CASE p = "fetch1" ->
            IF metadata.isAggregate
            THEN IF _aggregate_query_is_not_done(metadata) /\ ~done
                 THEN "aggloop" ELSE "return"
            ELSE IF metadata.workDone = 0 /\ ~done THEN "stream2" ELSE "return"
      [] p = "aggloop" ->
            IF _aggregate_query_is_not_done(metadata) /\ ~done THEN "aggloop" ELSE "return"
      [] OTHER -> "return"

(***************************************************************************)
(* BaseQueryJob.poll, lines 123-135: where poll() goes after the fetch at  *)
(* position p returned a segment with this metadata, the handle's is_done  *)
(* being done: to the aggregate loop, to the streaming re-fetch, or out.   *)
(***************************************************************************)
PollNext(p, metadata, done) ==
    CASE p = "fetch1" ->
            IF metadata.isAggregate
            THEN IF _aggregate_query_is_not_done(metadata) THEN "aggloop" ELSE "return"
            ELSE IF metadata.workDone = 0 /\ ~done THEN "stream2" ELSE "return"
      [] p = "aggloop" ->
            IF _aggregate_query_is_not_done(metadata) THEN "aggloop" ELSE "return"
      [] OTHER -> "return"

\* A static handle without the exhaustion check.
StaticNeverExhausted(k, done) == FALSE

\* The exhaustion check made on every handle, live ones included.
AnyKindExhausted(k, done) == done

\* StaticQueryJob.poll, line 171.
StaticExhausted(k, done) == k = "static" /\ done

(***************************************************************************)
(* How a poll() that ends shows in the generator that called it: a value   *)
(* is yielded (line 144), an exception ends the generator.                 *)
(***************************************************************************)
GenAfterReturn(v) ==
    IF v = "gen"
    THEN gen' = "suspended" /\ pullOutcome' = "yielded"
    ELSE UNCHANGED genVars

GenAfterRaise(v) ==
    IF v = "gen"
    THEN gen' = "finished" /\ pullOutcome' = "raised"
    ELSE UNCHANGED genVars

(***************************************************************************)
(* The headers keyword BaseQueryJob.poll pops (line 119) when poll(headers *)
(* = h) is called on a handle of class k: StaticQueryJob.poll calls        *)
(* super().poll() with no argument (line 173), LiveQueryJob inherits       *)
(* BaseQueryJob.poll.                                                      *)
(***************************************************************************)
PollHeaders(k, h) == IF k = "static" THEN NoHeaders ELSE h

\* An entry whose exhaustion check clears is_done as it raises.
EnterForgetsDone(d, v, h) ==
    /\ pc = "idle"
    /\ ~disposed
    /\ polls < MaxPolls
    /\ now + d <= MaxTime
    /\ now' = now + d
    /\ polls' = polls + 1
    /\ via' = v
    /\ fetches' = 0
    /\ first' = NoFirst
    /\ entryDone' = is_done
    /\ poll_result' = NoResult
    /\ ret' = NoResult
    /\ thrown' = NoError
    /\ IF StaticExhausted(kind, is_done)
       THEN /\ pc' = "idle"
            /\ outcome' = "raised"
            /\ raised' = HumioQueryJobExhaustedException
            /\ event' = "exhausted"
            /\ headers' = NoHeaders
            /\ is_done' = FALSE
            /\ UNCHANGED <<is_cancelled, time_at_last_poll, wait_time>>
       ELSE /\ pc' = "fetch1"
            /\ outcome' = "pending"
            /\ raised' = NoError
            /\ event' = "begin"
            /\ headers' = Update(_default_user_headers, PollHeaders(kind, h))
            /\ UNCHANGED handle
    /\ callerHeaders' = h
    /\ partials' = 0
    /\ UNCHANGED <<kind, jobAggregate, gets, slept, getAt, everOk, lastOk, delVars>>

(***************************************************************************)
(* Entry of poll(headers=h), d milliseconds after the previous step: the   *)
(* static handle's exhaustion check, then the headers, then on to the      *)
(* first fetch.                                                            *)
(***************************************************************************)
Enter(d, v, h) ==
    /\ pc = "idle"
    /\ ~disposed
    /\ polls < MaxPolls
    /\ now + d <= MaxTime
    /\ now' = now + d
    /\ polls' = polls + 1
    /\ via' = v
    /\ fetches' = 0
    /\ first' = NoFirst
    /\ entryDone' = is_done
    /\ poll_result' = NoResult
    /\ ret' = NoResult
    /\ thrown' = NoError
    /\ IF StaticExhausted(kind, is_done)
       THEN /\ pc' = "idle"
            /\ outcome' = "raised"
            /\ raised' = HumioQueryJobExhaustedException
            /\ event' = "exhausted"
            /\ headers' = NoHeaders
       ELSE /\ pc' = "fetch1"
            /\ outcome' = "pending"
            /\ raised' = NoError
            /\ event' = "begin"
            /\ headers' = Update(_default_user_headers, PollHeaders(kind, h))
    /\ callerHeaders' = h
    /\ partials' = 0
    /\ UNCHANGED <<kind, jobAggregate, handle, gets, slept, getAt, everOk, lastOk, delVars>>

\* The caller invokes poll(headers=h) directly.
poll(d, h) ==
    /\ gen = "none"
    /\ Enter(d, "call", h)
    /\ UNCHANGED genVars

\* A commit that takes is_cancelled from the response's done.
CommittedFromDone(r) ==
    [wait_time |-> r.metaData.pollAfter, is_done |-> r.done, is_cancelled |-> r.done]

\* _fetch_next_segment, lines 90-92: the fields taken from the response r.
Committed(r) ==
    [wait_time |-> r.metaData.pollAfter, is_done |-> r.done, is_cancelled |-> r.cancelled]

(***************************************************************************)
(* _fetch_next_segment with a 2xx answer of body b that arrives lat ms     *)
(* after the GET (a sleep ends at the first clock tick it allows);       *)
(* then the rest of poll() up to the next fetch or the return.             *)
(***************************************************************************)
FetchOk(b, lat) ==
    /\ pc # "idle"
    /\ LET r == Response(Min(gets + 1, MaxGets), b)
           req == _wait_till_next_poll(now, time_at_last_poll, wait_time)
           issue == now + SleepTicks(req)
           t1 == issue + lat
           res == PollResult(r.events, r.metaData)
           nxt == PollNext(pc, r.metaData, r.done)
       IN  /\ t1 <= MaxTime
           /\ slept' = req
           /\ getAt' = issue
           /\ now' = t1
           /\ wait_time' = Committed(r).wait_time
           /\ is_done' = Committed(r).is_done
           /\ is_cancelled' = Committed(r).is_cancelled
           /\ time_at_last_poll' = t1
           /\ lastOk' = r
           /\ partials' = IF _aggregate_query_is_not_done(r.metaData)
                          THEN Min(partials + 1, MaxGets) ELSE partials
           /\ poll_result' = res
           /\ fetches' = Min(fetches + 1, MaxGets)
           /\ gets' = Min(gets + 1, MaxGets)
           /\ first' = IF fetches = 0 THEN FirstOf(r) ELSE first
           /\ everOk' = TRUE
           /\ event' = "ok"
           /\ IF nxt = "return"
              THEN /\ pc' = "idle"
                   /\ outcome' = "returned"
                   /\ ret' = res
                   /\ GenAfterReturn(via)
              ELSE /\ pc' = nxt
                   /\ UNCHANGED <<outcome, ret>>
                   /\ UNCHANGED genVars
    /\ UNCHANGED <<kind, jobAggregate, via, raised, thrown, polls, entryDone, hdrVars, delVars>>

\* A failed call that is swallowed: poll() stays where it is and fetches again.
FetchFailRetries(e, lat) ==
    /\ pc # "idle"
    /\ LET req == _wait_till_next_poll(now, time_at_last_poll, wait_time)
           issue == now + SleepTicks(req)
           t1 == issue + lat
       IN  /\ t1 <= MaxTime
           /\ slept' = req
           /\ getAt' = issue
           /\ now' = t1
    /\ fetches' = Min(fetches + 1, MaxGets)
    /\ gets' = Min(gets + 1, MaxGets)
    /\ thrown' = e
    /\ event' = "err"
    /\ UNCHANGED <<kind, jobAggregate, handle, via, poll_result, ret, first, polls, entryDone,
                   everOk, hdrVars, partials, lastOk, delVars, raised, outcome, pc, genVars>>

\* A failed call that still stamps time_at_last_poll.
FetchFailStamps(e, lat) ==
    /\ pc # "idle"
    /\ LET req == _wait_till_next_poll(now, time_at_last_poll, wait_time)
           issue == now + SleepTicks(req)
           t1 == issue + lat
       IN  /\ t1 <= MaxTime
           /\ slept' = req
           /\ getAt' = issue
           /\ now' = t1
           /\ time_at_last_poll' = t1
    /\ fetches' = Min(fetches + 1, MaxGets)
    /\ gets' = Min(gets + 1, MaxGets)
    /\ thrown' = e
    /\ raised' = FetchRaises(e)
    /\ outcome' = "raised"
    /\ pc' = "idle"
    /\ event' = "err"
    /\ GenAfterRaise(via)
    /\ UNCHANGED <<kind, jobAggregate, is_done, is_cancelled, wait_time, via, poll_result,
                   ret, first, polls, entryDone, everOk, hdrVars, partials, lastOk, delVars>>

(***************************************************************************)
(* _fetch_next_segment with a transport call that raises e: nothing is     *)
(* committed, and the exception leaves poll().                             *)
(***************************************************************************)
FetchFail(e, lat) ==
    /\ pc # "idle"
    /\ LET req == _wait_till_next_poll(now, time_at_last_poll, wait_time)
           issue == now + SleepTicks(req)
           t1 == issue + lat
       IN  /\ t1 <= MaxTime
           /\ slept' = req
           /\ getAt' = issue
           /\ now' = t1
    /\ fetches' = Min(fetches + 1, MaxGets)
    /\ gets' = Min(gets + 1, MaxGets)
    /\ thrown' = e
    /\ raised' = FetchRaises(e)
    /\ outcome' = "raised"
    /\ pc' = "idle"
    /\ event' = "err"
    /\ GenAfterRaise(via)
    /\ UNCHANGED <<kind, jobAggregate, handle, via, poll_result, ret, first, polls, entryDone,
                   everOk, hdrVars, partials, lastOk, delVars>>

(***************************************************************************)
(* poll_until_done(): calling it makes a generator whose body has not      *)
(* started; the first next() runs poll() and yields its result, the next   *)
(* one runs off the end of the body.                                       *)
(***************************************************************************)
poll_until_done ==
    /\ pc = "idle"
    /\ ~disposed
    /\ gen = "none"
    /\ gen' = "fresh"
    /\ pullOutcome' = "none"
    /\ event' = "generator"
    /\ UNCHANGED <<kind, jobAggregate, handle, now, pc, via, poll_result, outcome, ret,
                   raised, thrown, first, fetches, polls, gets, entryDone, slept, getAt,
                   everOk, hdrVars, partials, lastOk, delVars>>

\* next() on the generator, d milliseconds after the previous step.
GenNext(d) ==
    /\ pc = "idle"
    /\ ~disposed
    /\ \/ /\ gen = "fresh"
          /\ Enter(d, "gen", NoHeaders)
          /\ IF StaticExhausted(kind, is_done)
             THEN gen' = "finished" /\ pullOutcome' = "raised"
             ELSE gen' = "running" /\ pullOutcome' = "pending"
       \/ /\ gen = "suspended" \/ (gen = "finished" /\ pullOutcome # "StopIteration")
          /\ gen' = "finished"
          /\ pullOutcome' = "StopIteration"
          /\ event' = "stop"
          /\ UNCHANGED <<kind, jobAggregate, handle, now, pc, via, poll_result, outcome,
                         ret, raised, thrown, first, fetches, polls, gets, entryDone,
                         slept, getAt, everOk, hdrVars, partials, lastOk, delVars>>

\* __del__ without the try/except.
DelRaisesUncaught(e) == e

\* LiveQueryJob.__del__, lines 203-204: what leaves __del__ when its DELETE
\* raises e (NoError when the DELETE succeeds).
DelRaises(e) == IF e.type = "HumioHTTPException" THEN NoError ELSE e

(***************************************************************************)
(* LiveQueryJob.__del__: the handle is disposed of while no poll() runs;   *)
(* its DELETE does o.  Nothing is called on the handle afterwards.         *)
(***************************************************************************)
__del__(o) ==
    /\ kind = "live"
    /\ pc = "idle"
    /\ ~disposed
    /\ disposed' = TRUE
    /\ delThrown' = o
    /\ delRaised' = DelRaises(o)
    /\ event' = "del"
    /\ UNCHANGED <<kind, jobAggregate, handle, now, pc, via, poll_result, outcome, ret,
                   raised, thrown, first, fetches, polls, gets, entryDone, slept, getAt,
                   everOk, genVars, hdrVars, partials, lastOk>>

\* The answers the server gives for this job.
Bodies == {b \in Body : b.metaData.isAggregate = jobAggregate}

\* The exploration stops a run at MaxGets transport calls.
WithinBudget == gets < MaxGets

Next ==
    \/ \E d \in IdleTimes, h \in CallerHeaders : poll(d, h)
    \/ \E b \in Bodies, lat \in Latencies : WithinBudget /\ FetchOk(b, lat)
    \/ \E e \in TransportErrors, lat \in Latencies : WithinBudget /\ FetchFail(e, lat)
    \/ poll_until_done
    \/ \E d \in IdleTimes : GenNext(d)
    \/ \E o \in DeleteOutcomes : __del__(o)

Spec == Init /\ [][Next]_vars

(***************************************************************************)
(* Progress.  Which fetches poll() issues does not depend on how long they *)
(* take, so the specification of progress keeps the clock still: the       *)
(* server answers pollAfter = 0 at once, the caller polls at once.  The    *)
(* server does not go back: within a poll() workDone never decreases, and  *)
(* done stays true once reported.  Every transport call completes: a fetch *)
(* that is due is eventually made.                                         *)
(***************************************************************************)
PromptBodies ==
    {b \in Bodies : /\ b.metaData.pollAfter = 0
                    /\ b.metaData.workDone >= poll_result.metadata.workDone
                    /\ is_done => b.done}

FetchStep ==
    \/ \E b \in PromptBodies : FetchOk(b, 0)
    \/ \E e \in TransportErrors : FetchFail(e, 0)

NextProgress ==
    \/ \E h \in CallerHeaders : poll(0, h)
    \/ \E b \in PromptBodies : FetchOk(b, 0)
    \/ \E e \in TransportErrors : FetchFail(e, 0)

SpecProgress == Init /\ [][NextProgress]_vars /\ WF_vars(FetchStep)

(***************************************************************************)
(* The properties.                                                         *)
(***************************************************************************)
IsFetch(ev) == ev \in {"ok", "err"}
PartialAggregate(metadata) ==
    metadata.isAggregate = TRUE /\ ~(metadata.workDone = metadata.totalWork)

\* C1: a poll() of an aggregate job never returns a PollResult whose metadata
\* has isAggregate true and workDone different from totalWork.
C1_AggregateNeverPartial ==
    (jobAggregate /\ outcome = "returned") => ~PartialAggregate(ret.metadata)

\* A poll() of an aggregate job returned after the loop fetched again.
C1_Witness ==
    /\ jobAggregate
    /\ outcome = "returned"
    /\ fetches >= 2
    /\ ret.metadata.isAggregate

\* C2: on a static handle, a poll() entered after a response reported done fails
\* with Exhausted without any transport call, and a poll() whose last fetch
\* succeeded (the one that received done included) returns that segment.
C2_StaticExhausted ==
    kind = "static" =>
        /\ (pc = "idle" /\ polls > 0 /\ entryDone) =>
               /\ outcome = "raised"
               /\ raised = HumioQueryJobExhaustedException
               /\ fetches = 0
        /\ (pc = "idle" /\ event = "ok") =>
               /\ outcome = "returned"
               /\ ret.events = gets
               /\ ~entryDone

\* A static handle has received done and the next poll() failed with Exhausted.
C2_Witness ==
    /\ kind = "static"
    /\ outcome = "raised"
    /\ raised = HumioQueryJobExhaustedException
    /\ gets >= 1
    /\ fetches = 0
    /\ is_done

\* C3: a poll() of a streaming job issues two fetches when its first fetch
\* yields workDone = 0 with done false, one fetch otherwise, and what it
\* returns is the last segment fetched.
C3_StreamingFetches ==
    (~jobAggregate /\ pc = "idle" /\ first.seen) =>
        /\ fetches = (IF first.workDone = 0 /\ ~first.done THEN 2 ELSE 1)
        /\ outcome = "returned" => (ret.events = gets /\ ret = poll_result)

\* A streaming poll() returned the segment of its second fetch.
C3_Witness ==
    /\ ~jobAggregate
    /\ outcome = "returned"
    /\ fetches = 2
    /\ first.workDone = 0
    /\ ~first.done
    /\ ret.events = gets

\* C4: a transport failure with status 404, in whichever fetch of a poll(),
\* leaves poll() as the expired-job error; any other transport failure leaves
\* it as the error the transport raised.
C4_ErrorTranslation ==
    (outcome = "raised" /\ thrown # NoError) =>
        /\ (thrown.type = "HumioHTTPException" /\ thrown.status_code = 404) =>
               raised = HumioQueryJobExpiredException(thrown.message)
        /\ ~(thrown.type = "HumioHTTPException" /\ thrown.status_code = 404) =>
               raised = thrown

\* A 404 in a re-fetch inside poll() surfaced as the expired-job error.
C4_Witness ==
    /\ outcome = "raised"
    /\ thrown.status_code = 404
    /\ raised.type = "HumioQueryJobExpiredException"
    /\ fetches >= 2

\* The last answer fetched is a partial aggregate (the aggregate loop goes on).
LoopPending == PartialAggregate(poll_result.metadata)
PollEnds == (pc # "idle") ~> (pc = "idle")
WorkDoneIncreases == poll_result'.metadata.workDone > poll_result.metadata.workDone

\* C5 as stated: if every transport call completes and the server makes
\* progress (workDone keeps increasing, or done becomes true), every poll() ends.
C5_Original ==
    (([]<><<WorkDoneIncreases>>_vars) \/ (<>[](is_done = TRUE))) => PollEnds

\* C5 as amended: if every transport call completes and the server does not
\* answer an aggregate poll() with partial aggregates for ever, every poll() ends.
C5_PollTerminates ==
    ([]<>(~LoopPending)) => PollEnds

\* An aggregate poll() went round its loop and returned.
C5_Witness ==
    /\ jobAggregate
    /\ pc = "idle"
    /\ outcome = "returned"
    /\ fetches >= 2

\* C6: once a transport call has succeeded, completing at time_at_last_poll and
\* setting wait_time, the next GET is issued no earlier than their sum.
C6_PacingLowerBound ==
    [][(IsFetch(event') /\ everOk) => getAt' >= time_at_last_poll + wait_time]_vars

\* A GET after a success that set a positive wait_time, the gate having slept.
C6_Witness ==
    /\ IsFetch(event)
    /\ gets >= 2
    /\ slept # NoSleep

\* C7 as stated: with elapsed = now - time_at_last_poll in milliseconds, the gate
\* sleeps exactly wait_time - elapsed milliseconds when elapsed < wait_time and
\* does not sleep when elapsed >= wait_time.
C7_GateExact ==
    [][IsFetch(event') =>
          LET elapsed == now - time_at_last_poll
          IN  /\ elapsed < wait_time => slept' = (wait_time - elapsed) * UsPerMs
              /\ elapsed >= wait_time => slept' = NoSleep]_vars

\* C8: the gate does not sleep before the first transport call of a handle.
C8_FirstCallNotDelayed ==
    (gets <= 1) => slept = NoSleep

\* The first transport call has been made.
C8_Witness ==
    /\ gets = 1
    /\ IsFetch(event)
    /\ polls = 1

\* C9: a failed transport call leaves wait_time, is_done, is_cancelled and
\* time_at_last_poll as they were, and only a successful call changes them.
C9_FailureKeepsState ==
    [][/\ (event' = "err") => (handle' = handle)
       /\ (handle' # handle) => (event' = "ok")]_vars

\* A transport call failed on a handle whose fields an earlier success had set.
C9_Witness ==
    /\ event = "err"
    /\ everOk
    /\ wait_time > 0
    /\ is_cancelled
    /\ now > time_at_last_poll

\* C10 as stated: on a live handle every next() of the result stream performs a
\* poll() and the stream never ends on its own.
C10_LiveStreamNeverEnds ==
    kind = "live" => pullOutcome # "StopIteration"

\* C11 as stated: the result stream of a static handle ends only by raising
\* (Exhausted once done has been observed), never by running out silently.
C11_StaticStreamBounded ==
    (kind = "static" /\ gen = "finished") => pullOutcome = "raised"

\* C12: disposing of a live handle whose DELETE fails with a 404 raises nothing.
C12_Delete404Suppressed ==
    (disposed /\ delThrown.type = "HumioHTTPException" /\ delThrown.status_code = 404)
        => delRaised = NoError

\* A live handle that had polled was disposed of and its DELETE met a 404.
C12_Witness ==
    /\ kind = "live"
    /\ disposed
    /\ everOk
    /\ delThrown.type = "HumioHTTPException"
    /\ delThrown.status_code = 404

\* C13 as stated: whatever the DELETE of a disposal raises, nothing leaves the
\* disposal.
C13_DisposalInfallible ==
    disposed => delRaised = NoError

\* The headers poll(headers = extra) is to send: the defaults, then extra's
\* entries over them.
MergedHeaders(extra) ==
    [k \in DOMAIN _default_user_headers \cup DOMAIN extra |->
        IF k \in DOMAIN extra THEN extra[k] ELSE _default_user_headers[k]]

\* C14 as stated: on every handle, each GET of poll(headers = extra) carries the
\* default headers merged with extra, extra winning on every key collision.
C14_HeadersMerged ==
    IsFetch(event) => headers = MergedHeaders(callerHeaders)

\* C15: a transport call that fails ends its poll() with the error, and poll()
\* stands at a re-fetch only after a successful response.
C15_NoRetry ==
    /\ (event = "err") =>
           /\ pc = "idle"
           /\ outcome = "raised"
           /\ thrown \in TransportErrors
           /\ raised # NoError
    /\ (pc \in {"aggloop", "stream2"}) => (event = "ok")

\* The re-fetch of a poll() failed.
C15_Witness ==
    /\ event = "err"
    /\ fetches = 2
    /\ first.seen

\* C16: a poll() entered on a live handle after done was observed does not fail
\* with Exhausted; it ends only after at least one transport call.
C16_LiveNoExhaustion ==
    (kind = "live" /\ polls > 0 /\ entryDone) =>
        /\ raised # HumioQueryJobExhaustedException
        /\ (pc = "idle") => (fetches >= 1)

\* A live handle polled after done was observed, and that poll() returned.
C16_Witness ==
    /\ kind = "live"
    /\ entryDone
    /\ pc = "idle"
    /\ outcome = "returned"
    /\ event = "ok"

\* C17: a poll() of an aggregate job that stands in its loop has fetched partial
\* segments only; when it returns it has fetched exactly one segment more, the
\* first with workDone = totalWork, and returns that segment's events and
\* metadata.
C17_AggregateKthSegment ==
    jobAggregate =>
        /\ (pc = "aggloop") => (fetches = partials)
        /\ (outcome = "returned") =>
               /\ fetches = partials + 1
               /\ ret.events = gets
               /\ ret.metadata = lastOk.metaData
               /\ ret.metadata.workDone = ret.metadata.totalWork

\* A poll() of an aggregate job returned the third segment after two partial ones.
C17_Witness ==
    /\ jobAggregate
    /\ outcome = "returned"
    /\ partials = 2
    /\ fetches = 3
    /\ ret.events = 3

\* C18: once a transport call has succeeded, is_done, is_cancelled and wait_time
\* are the done, cancelled and pollAfter of the most recent successful response,
\* and a poll() that returned returned the events and metadata of that response.
C18_StateCommit ==
    everOk =>
        /\ is_done = lastOk.done
        /\ is_cancelled = lastOk.cancelled
        /\ wait_time = lastOk.metaData.pollAfter
        /\ (outcome = "returned") => (ret = PollResult(lastOk.events, lastOk.metaData))

\* A poll() returned its second segment, whose done and cancelled differ.
C18_Witness ==
    /\ outcome = "returned"
    /\ fetches = 2
    /\ lastOk.done
    /\ ~lastOk.cancelled
    /\ lastOk.metaData.pollAfter = MaxWait
    /\ lastOk.events = 2

\* C19: once a poll() on a static handle has failed with Exhausted, every later
\* step leaves the handle exhausted: no transport call is made and is_done,
\* is_cancelled, wait_time and time_at_last_poll keep their values.
C19_ExhaustionAbsorbing ==
    [][(kind = "static" /\ raised = HumioQueryJobExhaustedException) =>
          /\ raised' = HumioQueryJobExhaustedException
          /\ pc' = "idle"
          /\ ~IsFetch(event')
          /\ gets' = gets
          /\ handle' = handle]_vars

\* A static handle failed with Exhausted twice in a row.
C19_Witness ==
    /\ kind = "static"
    /\ polls = 3
    /\ gets = 1
    /\ event = "exhausted"
    /\ raised = HumioQueryJobExhaustedException

\* C20 as stated: a static handle whose is_done is true issues no transport GET.
C20_Original ==
    [][(kind = "static" /\ is_done) => ~IsFetch(event')]_vars

\* C20: the only transport GET a static handle issues while its is_done is true
\* is a re-fetch of the aggregate loop.
C20_NoGetAfterDone ==
    [][(kind = "static" /\ is_done /\ IsFetch(event')) => (pc = "aggloop")]_vars

\* A static handle's aggregate loop fetched again after its first response
\* reported done.
C20_Witness ==
    /\ kind = "static"
    /\ jobAggregate
    /\ first.seen
    /\ first.done
    /\ fetches >= 2
====
